---- MODULE Spec2Model ----
(***************************************************************************)
(* A model of the consistent-hash ring of atharvamhaske/chash.             *)
(*                                                                         *)
(* Two copies of the ring live in the repository: package hashring         *)
(* (hash-ring/, the one main.go imports) and package consistenthash        *)
(* (hash_ring/hash_ring.go).  They differ in one expression of GetNode,    *)
(* the key handed to sync.Map.Load; the variable pkg says which copy a     *)
(* ring was built from.                                                    *)
(*                                                                         *)
(* The hash is 64 bits wide in the program.  The model keeps the           *)
(* arithmetic of the program (FNV, the uint64 -> int64 conversion, the     *)
(* signed sort) at a width of HashBits bits: the FNV value of the model is *)
(* the low HashBits bits of the program's FNV value, and the sign bit is   *)
(* bit HashBits-1.                                                         *)
(***************************************************************************)
EXTENDS Integers, Sequences, FiniteSets, TLC

\* ---------------------------------------------------------------- bounds
HashBits == 3
MaxByte == 3
MaxOpts == 2

\* ------------------------------------------------------------- constants
\* low 16 bits of hash/fnv offset64 (0xcbf29ce484222325) and prime64
\* (0x00000100000001b3)
offset64 == 8997
prime64 == 435

Modulus == 2 ^ HashBits
SignBit == 2 ^ (HashBits - 1)

Bytes == 0 .. MaxByte

RECURSIVE StringsOfLen(_)
StringsOfLen(n) ==
    IF n = 0 THEN { <<>> }
    ELSE { Append(s, b) : s \in StringsOfLen(n - 1), b \in Bytes }

\* the strings of the model: the empty string and the one-byte strings
Strings == StringsOfLen(0) \cup StringsOfLen(1)

\* keys handed to GetNode
Keys == Strings

\* identifiers of the caller's nodes
Identifiers == Strings

\* the caller's node objects: one object "a" for each identifier, and a second
\* object "b" that has the same identifier as one of them
CacheNode ==
    { [obj |-> "a", identifier |-> s] : s \in Identifiers }
        \cup { [obj |-> "b", identifier |-> <<>>] }

GetIdentifier(node) == node.identifier

\* the nil CacheNode
NilNode == [obj |-> "nil", identifier |-> <<>>]

\* ---------------------------------------------------------------- errors
NoErr == "nil"
ErrNoConnectedNodes == "No connected Nodes available"
ErrNodeExits == "Node already exists"
ErrNodeNotFound == "Node not found"
ErrInHashingKey == "Error in Hashing Key"

\* --------------------------------------------------------- configuration
\* fnv.New64a is the default; "custom" is a caller's hash.Hash64 given with
\* SetHashFunction: it computes FNV-1 (fnv.New64) and its Write may fail.
HashFunctions == {"fnv1a", "custom"}

hashRingConfig == [HashFunction : HashFunctions, EnableLogs : BOOLEAN]

\* the option SetHashFunction(f)
SetHashFunction(f) == [fn |-> "SetHashFunction", f |-> f, enabled |-> FALSE]

\* the option EnableVerboseLogs(enabled)
EnableVerboseLogs(enabled) ==
    [fn |-> "EnableVerboseLogs", f |-> "fnv1a", enabled |-> enabled]

\* HashRingConfigFn: the options a caller can pass to HashRingInit
HashRingConfigFn ==
    { SetHashFunction(f) : f \in HashFunctions }
        \cup { EnableVerboseLogs(enabled) : enabled \in BOOLEAN }

\* opt(config)
ApplyOption(opt, cfg) ==
    IF opt.fn = "SetHashFunction" THEN [cfg EXCEPT !.HashFunction = opt.f]
    ELSE [cfg EXCEPT !.EnableLogs = opt.enabled]

\* logging on before any option is applied
DefaultConfig_LogsOn == [HashFunction |-> "fnv1a", EnableLogs |-> TRUE]

\* config := &hashRingConfig{HashFunction: fnv.New64a, EnableLogs: false}
DefaultConfig == [HashFunction |-> "fnv1a", EnableLogs |-> FALSE]

\* for _, opt := range opts { opt(config) }
RECURSIVE ApplyOptions(_, _)
ApplyOptions(cfg, opts) ==
    IF opts = <<>> THEN cfg
    ELSE ApplyOptions(ApplyOption(Head(opts), cfg), Tail(opts))

\* the argument lists of HashRingInit: up to MaxOpts options
RECURSIVE OptionLists(_)
OptionLists(n) ==
    IF n = 0 THEN { <<>> }
    ELSE OptionLists(n - 1)
           \cup { Append(s, o) : s \in OptionLists(n - 1), o \in HashRingConfigFn }

Packages == {"hashring", "consistenthash"}

\* ------------------------------------------------------------ arithmetic
RECURSIVE Xor(_, _)
Xor(a, b) ==
    IF a = 0 THEN b
    ELSE IF b = 0 THEN a
    ELSE (((a % 2) + (b % 2)) % 2) + (2 * Xor(a \div 2, b \div 2))

\* int64(hashVal): the two's complement reading of the unsigned value
Int64(u) == IF u >= SignBit THEN u - Modulus ELSE u

\* uint64(nodeHash)
Uint64(i) == i % Modulus

\* keys of sync.Map are interface values: equal only if type and value agree
U64Key(u) == <<"uint64", u>>
I64Key(i) == <<"int64", i>>

\* hash/fnv New64a: hash ^= byte; hash *= prime64
RECURSIVE Fnv1a(_, _)
Fnv1a(h, s) ==
    IF s = <<>> THEN h
    ELSE Fnv1a((Xor(h, Head(s) % Modulus) * prime64) % Modulus, Tail(s))

\* hash/fnv New64: hash *= prime64; hash ^= byte
RECURSIVE Fnv1(_, _)
Fnv1(h, s) ==
    IF s = <<>> THEN h
    ELSE Fnv1(Xor((h * prime64) % Modulus, Head(s) % Modulus), Tail(s))

Sum64(hashFunction, key) ==
    IF hashFunction = "fnv1a" THEN Fnv1a(offset64 % Modulus, key)
    ELSE Fnv1(offset64 % Modulus, key)

\* whether h.Write can return an error
WriteMayFail(cfg) == IF cfg.HashFunction = "custom" THEN BOOLEAN ELSE {FALSE}

\* the error of h.Write dropped
generateHash_IgnoreWriteError(cfg, key, writeFails) ==
    [hash |-> Sum64(cfg.HashFunction, key), err |-> FALSE]

generateHash(cfg, key, writeFails) ==
    IF writeFails THEN [hash |-> 0, err |-> TRUE]
    ELSE [hash |-> Sum64(cfg.HashFunction, key), err |-> FALSE]

\* ------------------------------------------------------- slices and maps
RECURSIVE InsertSorted(_, _)
InsertSorted(s, x) ==
    IF s = <<>> THEN <<x>>
    ELSE IF x < Head(s) THEN <<x>> \o s
    ELSE <<Head(s)>> \o InsertSorted(Tail(s), x)

\* the slice left as append made it
SlicesSort_Unsorted(s) == s

\* slices.Sort(ring.sortedKeyOfNodes): ascending order of the int64 values
RECURSIVE SlicesSort(_)
SlicesSort(s) ==
    IF s = <<>> THEN <<>>
    ELSE InsertSorted(SlicesSort(Tail(s)), Head(s))

\* f(i) = sortedKeyOfNodes[i] > key
RECURSIVE SortSearch_Strict(_, _, _, _)
SortSearch_Strict(s, key, i, j) ==
    IF i < j
    THEN LET h == (i + j) \div 2
         IN IF ~(s[h + 1] > key) THEN SortSearch_Strict(s, key, h + 1, j)
            ELSE SortSearch_Strict(s, key, i, h)
    ELSE i

\* sort.Search(n, f) with f(i) = sortedKeyOfNodes[i] >= key; indices from 0
RECURSIVE SortSearch(_, _, _, _)
SortSearch(s, key, i, j) ==
    IF i < j
    THEN LET h == (i + j) \div 2
         IN IF ~(s[h + 1] >= key) THEN SortSearch(s, key, h + 1, j)
            ELSE SortSearch(s, key, i, h)
    ELSE i

\* the empty ring reported with the wrong sentinel
binarySearch_WrongSentinel(sorted, key) ==
    IF Len(sorted) = 0 THEN [index |-> -1, err |-> ErrNodeNotFound]
    ELSE LET index == SortSearch(sorted, key, 0, Len(sorted))
         IN [index |-> IF index = Len(sorted) THEN 0 ELSE index, err |-> NoErr]

binarySearch(sorted, key) ==
    IF Len(sorted) = 0 THEN [index |-> -1, err |-> ErrNoConnectedNodes]
    ELSE LET index == SortSearch(sorted, key, 0, Len(sorted))
         IN [index |-> IF index = Len(sorted) THEN 0 ELSE index, err |-> NoErr]

\* s[index:] in place of s[index+1:]
RemoveAt_NoSkip(s, index) == SubSeq(s, 1, index) \o SubSeq(s, index + 1, Len(s))

\* the entry after the one found is cut out
RemoveAt_OffByOne(s, index) ==
    SubSeq(s, 1, index + 1) \o SubSeq(s, index + 3, Len(s))

\* s[:index] alone
RemoveAt_Truncate(s, index) == SubSeq(s, 1, index)

\* append(s[:index], s[index+1:]...); index counts from 0
RemoveAt(s, index) == SubSeq(s, 1, index) \o SubSeq(s, index + 2, Len(s))

\* sync.Map
MapLoad(m, k) ==
    IF k \in DOMAIN m THEN [value |-> m[k], ok |-> TRUE]
    ELSE [value |-> NilNode, ok |-> FALSE]

MapStore(m, k, v) == [x \in DOMAIN m \cup {k} |-> IF x = k THEN v ELSE m[x]]

\* the entry left in the map
MapDelete_Keep(m, k) == m

MapDelete(m, k) == [x \in DOMAIN m \ {k} |-> m[x]]

EmptyMap == [x \in {} |-> NilNode]

\* ------------------------------------------------------------- the ring
VARIABLES
    pkg,                \* the package the ring comes from
    config,             \* HashRing.config
    nodes,              \* HashRing.nodes: sync.Map, hash key -> CacheNode
    sortedKeyOfNodes,   \* HashRing.sortedKeyOfNodes: []int64
    mu,                 \* HashRing.mu: the thread holding it, or NoThread
    pc,                 \* where each concurrent caller is in its call
    frame,              \* the locals of each concurrent caller's call
    last,               \* the last completed call and what it returned
    obs                 \* one earlier observation a caller still remembers

vars == <<pkg, config, nodes, sortedKeyOfNodes, mu, pc, frame, last, obs>>

\* package hashring: ring.nodes.Load(uint64(nodeHash))
LoadKey_hashring(nodeHash) == U64Key(Uint64(nodeHash))

\* package consistenthash: ring.nodes.Load(nodeHash), nodeHash an int64
LoadKey_consistenthash(nodeHash) == I64Key(nodeHash)

\* the key GetNode hands to ring.nodes.Load
GetNodeLoadKey(p, nodeHash) ==
    IF p = "hashring" THEN LoadKey_hashring(nodeHash)
    ELSE LoadKey_consistenthash(nodeHash)

\* Store before the check for an existing node
AddNodeCall_StoreFirst(cfg, m, sorted, node, writeFails) ==
    LET g == generateHash(cfg, GetIdentifier(node), writeFails)
        hashVal == g.hash
    IN  IF g.err
        THEN [nodes |-> m, sortedKeyOfNodes |-> sorted,
              err |-> ErrInHashingKey, logged |-> FALSE]
        ELSE IF MapLoad(m, U64Key(hashVal)).ok
        THEN [nodes |-> MapStore(m, U64Key(hashVal), node),
              sortedKeyOfNodes |-> sorted,
              err |-> ErrNodeExits, logged |-> FALSE]
        ELSE [nodes |-> MapStore(m, U64Key(hashVal), node),
              sortedKeyOfNodes |-> SlicesSort(Append(sorted, Int64(hashVal))),
              err |-> NoErr, logged |-> cfg.EnableLogs]

\* the check for an existing node made with the int64 value as key
AddNodeCall_LoadInt64(cfg, m, sorted, node, writeFails) ==
    LET g == generateHash(cfg, GetIdentifier(node), writeFails)
        hashVal == g.hash
    IN  IF g.err
        THEN [nodes |-> m, sortedKeyOfNodes |-> sorted,
              err |-> ErrInHashingKey, logged |-> FALSE]
        ELSE IF MapLoad(m, I64Key(Int64(hashVal))).ok
        THEN [nodes |-> m, sortedKeyOfNodes |-> sorted,
              err |-> ErrNodeExits, logged |-> FALSE]
        ELSE [nodes |-> MapStore(m, U64Key(hashVal), node),
              sortedKeyOfNodes |-> SlicesSort(Append(sorted, Int64(hashVal))),
              err |-> NoErr, logged |-> cfg.EnableLogs]

\* the append made before the check for an existing node
AddNodeCall_AppendFirst(cfg, m, sorted, node, writeFails) ==
    LET g == generateHash(cfg, GetIdentifier(node), writeFails)
        hashVal == g.hash
    IN  IF g.err
        THEN [nodes |-> m, sortedKeyOfNodes |-> sorted,
              err |-> ErrInHashingKey, logged |-> FALSE]
        ELSE IF MapLoad(m, U64Key(hashVal)).ok
        THEN [nodes |-> m,
              sortedKeyOfNodes |-> Append(sorted, Int64(hashVal)),
              err |-> ErrNodeExits, logged |-> FALSE]
        ELSE [nodes |-> MapStore(m, U64Key(hashVal), node),
              sortedKeyOfNodes |-> SlicesSort(Append(sorted, Int64(hashVal))),
              err |-> NoErr, logged |-> cfg.EnableLogs]

\* the hash appended twice
AddNodeCall_AppendTwice(cfg, m, sorted, node, writeFails) ==
    LET g == generateHash(cfg, GetIdentifier(node), writeFails)
        hashVal == g.hash
    IN  IF g.err
        THEN [nodes |-> m, sortedKeyOfNodes |-> sorted,
              err |-> ErrInHashingKey, logged |-> FALSE]
        ELSE IF MapLoad(m, U64Key(hashVal)).ok
        THEN [nodes |-> m, sortedKeyOfNodes |-> sorted,
              err |-> ErrNodeExits, logged |-> FALSE]
        ELSE [nodes |-> MapStore(m, U64Key(hashVal), node),
              sortedKeyOfNodes |->
                  SlicesSort(Append(Append(sorted, Int64(hashVal)),
                                    Int64(hashVal))),
              err |-> NoErr, logged |-> cfg.EnableLogs]

\* the new hash put in front of the sequence, with no sort
AddNodeCall_Prepend(cfg, m, sorted, node, writeFails) ==
    LET g == generateHash(cfg, GetIdentifier(node), writeFails)
        hashVal == g.hash
    IN  IF g.err
        THEN [nodes |-> m, sortedKeyOfNodes |-> sorted,
              err |-> ErrInHashingKey, logged |-> FALSE]
        ELSE IF MapLoad(m, U64Key(hashVal)).ok
        THEN [nodes |-> m, sortedKeyOfNodes |-> sorted,
              err |-> ErrNodeExits, logged |-> FALSE]
        ELSE [nodes |-> MapStore(m, U64Key(hashVal), node),
              sortedKeyOfNodes |-> <<Int64(hashVal)>> \o sorted,
              err |-> NoErr, logged |-> cfg.EnableLogs]

\* slices.Sort inside the block of the log line
AddNodeCall_SortOnlyWhenLogging(cfg, m, sorted, node, writeFails) ==
    LET g == generateHash(cfg, GetIdentifier(node), writeFails)
        hashVal == g.hash
    IN  IF g.err
        THEN [nodes |-> m, sortedKeyOfNodes |-> sorted,
              err |-> ErrInHashingKey, logged |-> FALSE]
        ELSE IF MapLoad(m, U64Key(hashVal)).ok
        THEN [nodes |-> m, sortedKeyOfNodes |-> sorted,
              err |-> ErrNodeExits, logged |-> FALSE]
        ELSE [nodes |-> MapStore(m, U64Key(hashVal), node),
              sortedKeyOfNodes |->
                  IF cfg.EnableLogs
                  THEN SlicesSort(Append(sorted, Int64(hashVal)))
                  ELSE Append(sorted, Int64(hashVal)),
              err |-> NoErr, logged |-> cfg.EnableLogs]

\* the body of AddNode, between Lock and Unlock
AddNodeCall(cfg, m, sorted, node, writeFails) ==
    LET g == generateHash(cfg, GetIdentifier(node), writeFails)
        hashVal == g.hash
    IN  IF g.err
        THEN [nodes |-> m, sortedKeyOfNodes |-> sorted,
              err |-> ErrInHashingKey, logged |-> FALSE]
        ELSE IF MapLoad(m, U64Key(hashVal)).ok
        THEN [nodes |-> m, sortedKeyOfNodes |-> sorted,
              err |-> ErrNodeExits, logged |-> FALSE]
        ELSE [nodes |-> MapStore(m, U64Key(hashVal), node),
              sortedKeyOfNodes |-> SlicesSort(Append(sorted, Int64(hashVal))),
              err |-> NoErr, logged |-> cfg.EnableLogs]

\* the ring searched before the error of generateHash is looked at
GetNodeCall_SearchFirst(p, cfg, m, sorted, key, writeFails) ==
    LET g == generateHash(cfg, key, writeFails)
        hashVal == g.hash
        b == binarySearch(sorted, Int64(hashVal))
    IN  IF b.err # NoErr
        THEN [node |-> NilNode, err |-> b.err, logged |-> FALSE]
        ELSE IF g.err
        THEN [node |-> NilNode, err |-> ErrInHashingKey, logged |-> FALSE]
        ELSE LET nodeHash == sorted[b.index + 1]
                 l == MapLoad(m, GetNodeLoadKey(p, nodeHash))
             IN  IF l.ok
                 THEN [node |-> l.value, err |-> NoErr, logged |-> cfg.EnableLogs]
                 ELSE [node |-> NilNode, err |-> ErrNodeNotFound, logged |-> FALSE]

\* the body of GetNode, between Lock and Unlock
GetNodeCall(p, cfg, m, sorted, key, writeFails) ==
    LET g == generateHash(cfg, key, writeFails)
        hashVal == g.hash
        b == binarySearch(sorted, Int64(hashVal))
    IN  IF g.err
        THEN [node |-> NilNode, err |-> ErrInHashingKey, logged |-> FALSE]
        ELSE IF b.err # NoErr
        THEN [node |-> NilNode, err |-> b.err, logged |-> FALSE]
        ELSE LET nodeHash == sorted[b.index + 1]
                 l == MapLoad(m, GetNodeLoadKey(p, nodeHash))
             IN  IF l.ok
                 THEN [node |-> l.value, err |-> NoErr, logged |-> cfg.EnableLogs]
                 ELSE [node |-> NilNode, err |-> ErrNodeNotFound, logged |-> FALSE]

\* no return when LoadAndDelete finds nothing
RemoveNodeCall_NoLoadCheck(cfg, m, sorted, node, writeFails) ==
    LET g == generateHash(cfg, GetIdentifier(node), writeFails)
        hashVal == g.hash
        deleted == MapDelete(m, U64Key(hashVal))
        b == binarySearch(sorted, Int64(hashVal))
    IN  IF g.err
        THEN [nodes |-> m, sortedKeyOfNodes |-> sorted,
              err |-> ErrInHashingKey, logged |-> FALSE]
        ELSE IF b.err # NoErr
        THEN [nodes |-> deleted, sortedKeyOfNodes |-> sorted,
              err |-> b.err, logged |-> FALSE]
        ELSE [nodes |-> deleted,
              sortedKeyOfNodes |-> RemoveAt(sorted, b.index),
              err |-> NoErr, logged |-> cfg.EnableLogs]

\* membership tested on the node object, not on its hash alone
RemoveNodeCall_ByIdentity(cfg, m, sorted, node, writeFails) ==
    LET g == generateHash(cfg, GetIdentifier(node), writeFails)
        hashVal == g.hash
        l == MapLoad(m, U64Key(hashVal))
        deleted == MapDelete(m, U64Key(hashVal))
        b == binarySearch(sorted, Int64(hashVal))
    IN  IF g.err
        THEN [nodes |-> m, sortedKeyOfNodes |-> sorted,
              err |-> ErrInHashingKey, logged |-> FALSE]
        ELSE IF ~l.ok \/ l.value # node
        THEN [nodes |-> m, sortedKeyOfNodes |-> sorted,
              err |-> ErrNodeNotFound, logged |-> FALSE]
        ELSE IF b.err # NoErr
        THEN [nodes |-> deleted, sortedKeyOfNodes |-> sorted,
              err |-> b.err, logged |-> FALSE]
        ELSE [nodes |-> deleted,
              sortedKeyOfNodes |-> RemoveAt(sorted, b.index),
              err |-> NoErr, logged |-> cfg.EnableLogs]

\* the body of RemoveNode, between Lock and Unlock
RemoveNodeCall(cfg, m, sorted, node, writeFails) ==
    LET g == generateHash(cfg, GetIdentifier(node), writeFails)
        hashVal == g.hash
        l == MapLoad(m, U64Key(hashVal))
        deleted == MapDelete(m, U64Key(hashVal))
        b == binarySearch(sorted, Int64(hashVal))
    IN  IF g.err
        THEN [nodes |-> m, sortedKeyOfNodes |-> sorted,
              err |-> ErrInHashingKey, logged |-> FALSE]
        ELSE IF ~l.ok
        THEN [nodes |-> m, sortedKeyOfNodes |-> sorted,
              err |-> ErrNodeNotFound, logged |-> FALSE]
        ELSE IF b.err # NoErr
        THEN [nodes |-> deleted, sortedKeyOfNodes |-> sorted,
              err |-> b.err, logged |-> FALSE]
        ELSE [nodes |-> deleted,
              sortedKeyOfNodes |-> RemoveAt(sorted, b.index),
              err |-> NoErr, logged |-> cfg.EnableLogs]

\* ------------------------------------------------------------- histories
NoThread == 0

NoCall == [op |-> "none", node |-> NilNode, key |-> <<>>, stored |-> NilNode,
           err |-> NoErr, ret |-> NilNode, logged |-> FALSE]

NoObs == [kind |-> "none", key |-> <<>>, node |-> NilNode, was |-> NilNode,
          err |-> NoErr, ret |-> NilNode, later |-> FALSE]

\* the remembered observation, once one more call has completed
Later(o) == IF o.kind = "none" THEN o ELSE [o EXCEPT !.later = TRUE]

\* what the mapping holds under the hash of the call's node, before the call
StoredBefore(cfg, m, node, writeFails) ==
    IF writeFails THEN NilNode
    ELSE MapLoad(m, U64Key(Sum64(cfg.HashFunction, GetIdentifier(node)))).value

\* HashRingInit(opts...)
HashRingInit ==
    /\ pkg \in Packages
    /\ config \in hashRingConfig
    /\ nodes = EmptyMap
    /\ sortedKeyOfNodes = <<>>
    /\ mu = NoThread

Init ==
    /\ HashRingInit
    /\ pc = <<>>
    /\ frame = <<>>
    /\ last = NoCall
    /\ obs = NoObs

\* ---------------------------------------------------------- construction
\* Before the call of HashRingInit the memory the ring will live in holds
\* anything; frame holds the options of the call.
InitOpts ==
    /\ pkg \in Packages
    /\ config \in hashRingConfig
    /\ nodes \in {EmptyMap, MapStore(EmptyMap, U64Key(0), NilNode)}
    /\ sortedKeyOfNodes \in {<<>>, <<0>>}
    /\ mu \in {NoThread, 1}
    /\ pc = "HashRingInit"
    /\ frame \in OptionLists(MaxOpts)
    /\ last = NoCall
    /\ obs = NoObs

\* ring := HashRingInit(opts...), the whole call
CallHashRingInit ==
    /\ pc = "HashRingInit"
    /\ config' = ApplyOptions(DefaultConfig, frame)
    /\ nodes' = EmptyMap
    /\ sortedKeyOfNodes' = <<>>
    /\ mu' = NoThread
    /\ pc' = "returned"
    /\ UNCHANGED <<pkg, frame, last, obs>>

NextInit == CallHashRingInit

SpecInit == InitOpts /\ [][NextInit]_vars

\* ring.AddNode(node), run from Lock to Unlock
AddNode(node, writeFails) ==
    LET r == AddNodeCall(config, nodes, sortedKeyOfNodes, node, writeFails)
        h == Sum64(config.HashFunction, GetIdentifier(node))
    IN  /\ mu = NoThread
        /\ nodes' = r.nodes
        /\ sortedKeyOfNodes' = r.sortedKeyOfNodes
        /\ last' = [op |-> "AddNode", node |-> node, key |-> <<>>,
                    stored |-> StoredBefore(config, nodes, node, writeFails),
                    err |-> r.err, ret |-> NilNode,
                    logged |-> r.logged]
        \* a remembered lookup is of the old membership; a remembered removal
        \* ends when its hash is registered again
        /\ obs' = IF r.err # NoErr THEN Later(obs)
                  ELSE IF obs.kind = "get" THEN NoObs
                  ELSE IF /\ obs.kind = "removed"
                          /\ Sum64(config.HashFunction, GetIdentifier(obs.node)) = h
                       THEN NoObs
                  ELSE Later(obs)
        /\ UNCHANGED <<pkg, config, mu, pc, frame>>

\* a hash the mapping does not hold is cut out of the sequence
GetNode_DropStale(key, writeFails, remember) ==
    LET r == GetNodeCall(pkg, config, nodes, sortedKeyOfNodes, key, writeFails)
        b == binarySearch(sortedKeyOfNodes,
                          Int64(Sum64(config.HashFunction, key)))
    IN  /\ mu = NoThread
        /\ last' = [op |-> "GetNode", node |-> NilNode, key |-> key,
                    stored |-> NilNode,
                    err |-> r.err, ret |-> r.node,
                    logged |-> r.logged]
        /\ obs' = Later(obs)
        /\ sortedKeyOfNodes' = IF r.err = ErrNodeNotFound
                               THEN RemoveAt(sortedKeyOfNodes, b.index)
                               ELSE sortedKeyOfNodes
        /\ UNCHANGED <<pkg, config, nodes, mu, pc, frame>>

\* ring.GetNode(key), run from Lock to Unlock; remember says whether the
\* caller keeps the answer to compare later answers with
GetNode(key, writeFails, remember) ==
    LET r == GetNodeCall(pkg, config, nodes, sortedKeyOfNodes, key, writeFails)
    IN  /\ mu = NoThread
        /\ last' = [op |-> "GetNode", node |-> NilNode, key |-> key,
                    stored |-> NilNode,
                    err |-> r.err, ret |-> r.node,
                    logged |-> r.logged]
        /\ obs' = IF remember
                  THEN [kind |-> "get", key |-> key, node |-> NilNode,
                        was |-> NilNode, err |-> r.err, ret |-> r.node,
                        later |-> FALSE]
                  ELSE Later(obs)
        /\ UNCHANGED <<pkg, config, nodes, sortedKeyOfNodes, mu, pc, frame>>

\* ring.RemoveNode(node), run from Lock to Unlock; remember says whether the
\* caller keeps in mind that it removed node
RemoveNode(node, writeFails, remember) ==
    LET r == RemoveNodeCall(config, nodes, sortedKeyOfNodes, node, writeFails)
        h == Sum64(config.HashFunction, GetIdentifier(node))
    IN  /\ mu = NoThread
        /\ nodes' = r.nodes
        /\ sortedKeyOfNodes' = r.sortedKeyOfNodes
        /\ last' = [op |-> "RemoveNode", node |-> node, key |-> <<>>,
                    stored |-> StoredBefore(config, nodes, node, writeFails),
                    err |-> r.err, ret |-> NilNode,
                    logged |-> r.logged]
        /\ obs' = IF r.err # NoErr THEN Later(obs)
                  ELSE IF remember
                  THEN [kind |-> "removed", key |-> <<>>, node |-> node,
                        was |-> MapLoad(nodes, U64Key(h)).value,
                        err |-> NoErr, ret |-> NilNode, later |-> FALSE]
                  ELSE IF obs.kind = "get" THEN NoObs
                  ELSE Later(obs)
        /\ UNCHANGED <<pkg, config, mu, pc, frame>>

\* the calls of one caller at a time, nothing remembered between calls
Next ==
    \/ \E node \in CacheNode, writeFails \in WriteMayFail(config) :
           AddNode(node, writeFails)
    \/ \E key \in Keys, writeFails \in WriteMayFail(config) :
           GetNode(key, writeFails, FALSE)
    \/ \E node \in CacheNode, writeFails \in WriteMayFail(config) :
           RemoveNode(node, writeFails, FALSE)

Spec == Init /\ [][Next]_vars

\* the same calls, by a caller that may remember an answer of GetNode
NextGet ==
    \/ \E node \in CacheNode, writeFails \in WriteMayFail(config) :
           AddNode(node, writeFails)
    \/ \E key \in Keys, writeFails \in WriteMayFail(config), remember \in BOOLEAN :
           GetNode(key, writeFails, remember)
    \/ \E node \in CacheNode, writeFails \in WriteMayFail(config) :
           RemoveNode(node, writeFails, FALSE)

SpecGet == Init /\ [][NextGet]_vars

\* the same calls, by a caller that may remember a node it removed
NextRemoved ==
    \/ \E node \in CacheNode, writeFails \in WriteMayFail(config) :
           AddNode(node, writeFails)
    \/ \E key \in Keys, writeFails \in WriteMayFail(config) :
           GetNode(key, writeFails, FALSE)
    \/ \E node \in CacheNode, writeFails \in WriteMayFail(config),
          remember \in BOOLEAN :
           RemoveNode(node, writeFails, remember)

SpecRemoved == Init /\ [][NextRemoved]_vars

\* ------------------------------------------------- add, remove, add again
\* The calls of one caller, who remembers in obs the ring as it was before
\* its last successful AddNode, and after a RemoveNode of the same node
\* straight after it, that the ring should be as before.

\* what the caller remembers of node and of the ring m, sorted
Remembered(kind, node, m, sorted) ==
    [kind |-> kind, node |-> node, nodes |-> m, sortedKeyOfNodes |-> sorted,
     later |-> FALSE]

\* ring.AddNode(node), run from Lock to Unlock
AddNodeRemembered(node, writeFails) ==
    LET r == AddNodeCall(config, nodes, sortedKeyOfNodes, node, writeFails)
    IN  /\ mu = NoThread
        /\ nodes' = r.nodes
        /\ sortedKeyOfNodes' = r.sortedKeyOfNodes
        /\ last' = [op |-> "AddNode", node |-> node, key |-> <<>>,
                    stored |-> StoredBefore(config, nodes, node, writeFails),
                    err |-> r.err, ret |-> NilNode,
                    logged |-> r.logged]
        /\ obs' = IF r.err # NoErr THEN NoObs
                  ELSE IF /\ obs.kind = "restored"
                          /\ ~obs.later
                          /\ obs.node = node
                       THEN Remembered("readded", node, nodes, sortedKeyOfNodes)
                  ELSE Remembered("added", node, nodes, sortedKeyOfNodes)
        /\ UNCHANGED <<pkg, config, mu, pc, frame>>

\* ring.RemoveNode(node), run from Lock to Unlock
RemoveNodeRemembered(node, writeFails) ==
    LET r == RemoveNodeCall(config, nodes, sortedKeyOfNodes, node, writeFails)
    IN  /\ mu = NoThread
        /\ nodes' = r.nodes
        /\ sortedKeyOfNodes' = r.sortedKeyOfNodes
        /\ last' = [op |-> "RemoveNode", node |-> node, key |-> <<>>,
                    stored |-> StoredBefore(config, nodes, node, writeFails),
                    err |-> r.err, ret |-> NilNode,
                    logged |-> r.logged]
        /\ obs' = IF /\ r.err = NoErr
                     /\ obs.kind \in {"added", "readded"}
                     /\ ~obs.later
                     /\ obs.node = node
                  THEN Remembered("restored", node, obs.nodes,
                                  obs.sortedKeyOfNodes)
                  ELSE NoObs
        /\ UNCHANGED <<pkg, config, mu, pc, frame>>

NextRoundTrip ==
    \/ \E node \in CacheNode, writeFails \in WriteMayFail(config) :
           AddNodeRemembered(node, writeFails)
    \/ \E key \in Keys, writeFails \in WriteMayFail(config) :
           GetNode(key, writeFails, FALSE)
    \/ \E node \in CacheNode, writeFails \in WriteMayFail(config) :
           RemoveNodeRemembered(node, writeFails)

SpecRoundTrip == Init /\ [][NextRoundTrip]_vars

\* ------------------------------------------------- concurrent callers
\* Each caller runs one call at a time, statement by statement.  The
\* argument of a call is drawn where the body first reads it, the statement
\* after Lock.
NumThreads == 2

Threads == 1 .. NumThreads

Ops == {"AddNode", "GetNode", "RemoveNode"}

ErrPanic == "panic: index out of range"

NoFrame == [op |-> "none", node |-> NilNode, key |-> <<>>, hashVal |-> 0,
            index |-> 0, stored |-> NilNode, err |-> NoErr, ret |-> NilNode]

InitConc ==
    /\ HashRingInit
    /\ config.EnableLogs = FALSE
    /\ pc = [t \in Threads |-> "idle"]
    /\ frame = [t \in Threads |-> NoFrame]
    /\ last = NoCall
    /\ obs = NoObs

\* ring.mu.Lock() can return
CanLock_NoExclusion(t) == TRUE

CanLock(t) == mu = NoThread

\* a caller enters AddNode, GetNode or RemoveNode
Call(t, op) ==
    /\ pc[t] = "idle"
    /\ pc' = [pc EXCEPT ![t] = "Lock"]
    /\ frame' = [frame EXCEPT ![t] = [NoFrame EXCEPT !.op = op]]
    /\ UNCHANGED <<pkg, config, nodes, sortedKeyOfNodes, mu, last, obs>>

\* ring.mu.Lock()
Lock(t) ==
    /\ pc[t] = "Lock"
    /\ CanLock(t)
    /\ mu' = t
    /\ pc' = [pc EXCEPT ![t] = "generateHash"]
    /\ UNCHANGED <<pkg, config, nodes, sortedKeyOfNodes, frame, last, obs>>

\* hashVal, err := ring.generateHash(...) and the return on err
GenerateHash(t, node, key, writeFails) ==
    /\ pc[t] = "generateHash"
    /\ IF frame[t].op = "GetNode" THEN node = NilNode
       ELSE node \in CacheNode /\ key = <<>>
    /\ LET str == IF frame[t].op = "GetNode" THEN key ELSE GetIdentifier(node)
           g == generateHash(config, str, writeFails)
       IN  /\ frame' = [frame EXCEPT ![t] =
                 [@ EXCEPT !.node = node, !.key = key, !.hashVal = g.hash,
                           !.err = IF g.err THEN ErrInHashingKey ELSE NoErr]]
           /\ pc' = [pc EXCEPT ![t] =
                 IF g.err THEN "Unlock"
                 ELSE IF frame[t].op = "AddNode" THEN "Load"
                 ELSE IF frame[t].op = "GetNode" THEN "binarySearch"
                 ELSE "LoadAndDelete"]
    /\ UNCHANGED <<pkg, config, nodes, sortedKeyOfNodes, mu, last, obs>>

\* AddNode: ring.nodes.Load(hashVal) and the return of ErrNodeExits
AddLoad(t) ==
    /\ pc[t] = "Load"
    /\ LET l == MapLoad(nodes, U64Key(frame[t].hashVal))
       IN  /\ frame' = [frame EXCEPT ![t] =
                 [@ EXCEPT !.stored = l.value,
                           !.err = IF l.ok THEN ErrNodeExits ELSE NoErr]]
           /\ pc' = [pc EXCEPT ![t] = IF l.ok THEN "Unlock" ELSE "Store"]
    /\ UNCHANGED <<pkg, config, nodes, sortedKeyOfNodes, mu, last, obs>>

\* AddNode: ring.nodes.Store(hashVal, node)
AddStore(t) ==
    /\ pc[t] = "Store"
    /\ nodes' = MapStore(nodes, U64Key(frame[t].hashVal), frame[t].node)
    /\ pc' = [pc EXCEPT ![t] = "append"]
    /\ UNCHANGED <<pkg, config, sortedKeyOfNodes, mu, frame, last, obs>>

\* AddNode: ring.sortedKeyOfNodes = append(ring.sortedKeyOfNodes, int64(hashVal))
AddAppend(t) ==
    /\ pc[t] = "append"
    /\ sortedKeyOfNodes' = Append(sortedKeyOfNodes, Int64(frame[t].hashVal))
    /\ pc' = [pc EXCEPT ![t] = "Sort"]
    /\ UNCHANGED <<pkg, config, nodes, mu, frame, last, obs>>

\* AddNode: slices.Sort(ring.sortedKeyOfNodes)
AddSort(t) ==
    /\ pc[t] = "Sort"
    /\ sortedKeyOfNodes' = SlicesSort(sortedKeyOfNodes)
    /\ pc' = [pc EXCEPT ![t] = "Unlock"]
    /\ UNCHANGED <<pkg, config, nodes, mu, frame, last, obs>>

\* the search made with the hash as an unsigned number
Search_NoConversion(t) ==
    /\ pc[t] = "binarySearch"
    /\ LET b == binarySearch(sortedKeyOfNodes, frame[t].hashVal)
       IN  /\ frame' = [frame EXCEPT ![t] =
                 [@ EXCEPT !.index = b.index, !.err = b.err]]
           /\ pc' = [pc EXCEPT ![t] =
                 IF b.err # NoErr THEN "Unlock"
                 ELSE IF frame[t].op = "GetNode" THEN "GetLoad"
                 ELSE "RemoveAt"]
    /\ UNCHANGED <<pkg, config, nodes, sortedKeyOfNodes, mu, last, obs>>

\* GetNode and RemoveNode: index, err := ring.binarySearch(int64(hashVal))
\* and the return on err
Search(t) ==
    /\ pc[t] = "binarySearch"
    /\ LET b == binarySearch(sortedKeyOfNodes, Int64(frame[t].hashVal))
       IN  /\ frame' = [frame EXCEPT ![t] =
                 [@ EXCEPT !.index = b.index, !.err = b.err]]
           /\ pc' = [pc EXCEPT ![t] =
                 IF b.err # NoErr THEN "Unlock"
                 ELSE IF frame[t].op = "GetNode" THEN "GetLoad"
                 ELSE "RemoveAt"]
    /\ UNCHANGED <<pkg, config, nodes, sortedKeyOfNodes, mu, last, obs>>

\* GetNode: nodeHash := ring.sortedKeyOfNodes[index], ring.nodes.Load and
\* the two returns
GetLoad(t) ==
    /\ pc[t] = "GetLoad"
    /\ IF frame[t].index >= Len(sortedKeyOfNodes)
       THEN frame' = [frame EXCEPT ![t] = [@ EXCEPT !.err = ErrPanic]]
       ELSE LET nodeHash == sortedKeyOfNodes[frame[t].index + 1]
                l == MapLoad(nodes, GetNodeLoadKey(pkg, nodeHash))
            IN  frame' = [frame EXCEPT ![t] =
                    [@ EXCEPT !.ret = l.value,
                              !.err = IF l.ok THEN NoErr ELSE ErrNodeNotFound]]
    /\ pc' = [pc EXCEPT ![t] = "Unlock"]
    /\ UNCHANGED <<pkg, config, nodes, sortedKeyOfNodes, mu, last, obs>>

\* RemoveNode: ring.nodes.LoadAndDelete(hashVal) and the return of
\* ErrNodeNotFound
RemoveLoadAndDelete(t) ==
    /\ pc[t] = "LoadAndDelete"
    /\ LET l == MapLoad(nodes, U64Key(frame[t].hashVal))
       IN  /\ frame' = [frame EXCEPT ![t] =
                 [@ EXCEPT !.stored = l.value,
                           !.err = IF l.ok THEN NoErr ELSE ErrNodeNotFound]]
           /\ nodes' = MapDelete(nodes, U64Key(frame[t].hashVal))
           /\ pc' = [pc EXCEPT ![t] = IF l.ok THEN "binarySearch" ELSE "Unlock"]
    /\ UNCHANGED <<pkg, config, sortedKeyOfNodes, mu, last, obs>>

\* RemoveNode: the slice cut around index
RemoveCut(t) ==
    /\ pc[t] = "RemoveAt"
    /\ IF frame[t].index >= Len(sortedKeyOfNodes)
       THEN /\ frame' = [frame EXCEPT ![t] = [@ EXCEPT !.err = ErrPanic]]
            /\ UNCHANGED sortedKeyOfNodes
       ELSE /\ sortedKeyOfNodes' = RemoveAt(sortedKeyOfNodes, frame[t].index)
            /\ UNCHANGED frame
    /\ pc' = [pc EXCEPT ![t] = "Unlock"]
    /\ UNCHANGED <<pkg, config, nodes, mu, last, obs>>

\* the lock kept when the call returns an error
Unlock_LeakOnError(t) ==
    /\ pc[t] = "Unlock"
    /\ mu' = IF frame[t].err # NoErr THEN mu ELSE NoThread
    /\ pc' = [pc EXCEPT ![t] = "idle"]
    /\ frame' = [frame EXCEPT ![t] = NoFrame]
    /\ UNCHANGED <<pkg, config, nodes, sortedKeyOfNodes, last, obs>>

\* the deferred ring.mu.Unlock() and the return to the caller of what the
\* frame holds in err and ret
Unlock(t) ==
    /\ pc[t] = "Unlock"
    /\ mu' = NoThread
    /\ pc' = [pc EXCEPT ![t] = "idle"]
    /\ frame' = [frame EXCEPT ![t] = NoFrame]
    /\ UNCHANGED <<pkg, config, nodes, sortedKeyOfNodes, last, obs>>

NextConc ==
    \E t \in Threads :
        \/ \E op \in Ops : Call(t, op)
        \/ Lock(t)
        \/ \E node \in CacheNode \cup {NilNode}, key \in Keys,
              writeFails \in WriteMayFail(config) :
               GenerateHash(t, node, key, writeFails)
        \/ AddLoad(t)
        \/ AddStore(t)
        \/ AddAppend(t)
        \/ AddSort(t)
        \/ Search(t)
        \/ GetLoad(t)
        \/ RemoveLoadAndDelete(t)
        \/ RemoveCut(t)
        \/ Unlock(t)

SpecConc == InitConc /\ [][NextConc]_vars

\* a statement of the body of a call, between Lock and Unlock
Body(t) ==
    \/ \E node \in CacheNode \cup {NilNode}, key \in Keys,
          writeFails \in WriteMayFail(config) :
           GenerateHash(t, node, key, writeFails)
    \/ AddLoad(t)
    \/ AddStore(t)
    \/ AddAppend(t)
    \/ AddSort(t)
    \/ Search(t)
    \/ GetLoad(t)
    \/ RemoveLoadAndDelete(t)
    \/ RemoveCut(t)

\* The scheduler runs every goroutine that can run, and sync.Mutex hands the
\* lock to a goroutine that keeps waiting for it (its starvation mode).
Fairness ==
    \A t \in Threads :
        /\ WF_vars(Body(t))
        /\ WF_vars(Unlock(t))
        /\ SF_vars(Lock(t))

SpecFair == InitConc /\ [][NextConc]_vars /\ Fairness

\* ------------------------------------- concurrent adds of distinct nodes
\* Each goroutine makes one AddNode call and keeps what it returned; the
\* nodes of the goroutines have pairwise distinct hashes, none of them
\* registered when its goroutine starts.

\* go func() { ring.AddNode(node) }
GoAddNode(t, node) ==
    /\ pc[t] = "idle"
    /\ U64Key(Sum64(config.HashFunction, GetIdentifier(node))) \notin DOMAIN nodes
    /\ \A u \in Threads \ {t} :
          pc[u] # "idle" =>
              Sum64(config.HashFunction, GetIdentifier(frame[u].node))
                  # Sum64(config.HashFunction, GetIdentifier(node))
    /\ pc' = [pc EXCEPT ![t] = "Lock"]
    /\ frame' = [frame EXCEPT ![t] =
                    [NoFrame EXCEPT !.op = "AddNode", !.node = node]]
    /\ UNCHANGED <<pkg, config, nodes, sortedKeyOfNodes, mu, last, obs>>

\* the deferred ring.mu.Unlock(), the return of err to the goroutine, and
\* wg.Done()
Done(t) ==
    /\ pc[t] = "Unlock"
    /\ mu' = NoThread
    /\ pc' = [pc EXCEPT ![t] = "done"]
    /\ UNCHANGED <<pkg, config, nodes, sortedKeyOfNodes, frame, last, obs>>

NextAdds ==
    \E t \in Threads :
        \/ \E node \in CacheNode : GoAddNode(t, node)
        \/ Lock(t)
        \/ \E writeFails \in WriteMayFail(config) :
               GenerateHash(t, frame[t].node, <<>>, writeFails)
        \/ AddLoad(t)
        \/ AddStore(t)
        \/ AddAppend(t)
        \/ AddSort(t)
        \/ Done(t)

SpecAdds == InitConc /\ [][NextAdds]_vars

\* ------------------------------------------ concurrent adds and lookups
\* The callers of SpecConc, none of them calling RemoveNode.
NextLookups ==
    \E t \in Threads :
        \/ \E op \in {"AddNode", "GetNode"} : Call(t, op)
        \/ Lock(t)
        \/ \E node \in CacheNode \cup {NilNode}, key \in Keys,
              writeFails \in WriteMayFail(config) :
               GenerateHash(t, node, key, writeFails)
        \/ AddLoad(t)
        \/ AddStore(t)
        \/ AddAppend(t)
        \/ AddSort(t)
        \/ Search(t)
        \/ GetLoad(t)
        \/ Unlock(t)

SpecLookups == InitConc /\ [][NextLookups]_vars

\* ------------------------------- concurrent callers, the ring remembered
\* The callers of SpecConc; obs keeps the mapping and the sequence as they
\* were when the caller that holds the lock acquired it.

\* ring.mu.Lock(), the ring remembered as the call finds it
LockObserved(t) ==
    /\ pc[t] = "Lock"
    /\ CanLock(t)
    /\ mu' = t
    /\ pc' = [pc EXCEPT ![t] = "generateHash"]
    /\ obs' = [kind |-> "locked", nodes |-> nodes,
               sortedKeyOfNodes |-> sortedKeyOfNodes]
    /\ UNCHANGED <<pkg, config, nodes, sortedKeyOfNodes, frame, last>>

\* the deferred ring.mu.Unlock() and the return to the caller
UnlockObserved(t) ==
    /\ pc[t] = "Unlock"
    /\ mu' = NoThread
    /\ pc' = [pc EXCEPT ![t] = "idle"]
    /\ frame' = [frame EXCEPT ![t] = NoFrame]
    /\ obs' = NoObs
    /\ UNCHANGED <<pkg, config, nodes, sortedKeyOfNodes, last>>

NextObserved ==
    \E t \in Threads :
        \/ \E op \in Ops : Call(t, op)
        \/ LockObserved(t)
        \/ \E node \in CacheNode \cup {NilNode}, key \in Keys,
              writeFails \in WriteMayFail(config) :
               GenerateHash(t, node, key, writeFails)
        \/ AddLoad(t)
        \/ AddStore(t)
        \/ AddAppend(t)
        \/ AddSort(t)
        \/ Search(t)
        \/ GetLoad(t)
        \/ RemoveLoadAndDelete(t)
        \/ RemoveCut(t)
        \/ UnlockObserved(t)

SpecObserved == InitConc /\ [][NextObserved]_vars

\* ------------------------------------------------------------ properties
\* the hash of a string under the ring's hash function
Hash(str) == Sum64(config.HashFunction, str)

\* the hash values that are keys of the mapping
StoredHashes == { k[2] : k \in DOMAIN nodes }

\* the values held in the ordered sequence
SequenceValues == { sortedKeyOfNodes[i] : i \in 1 .. Len(sortedKeyOfNodes) }

\* the nodes held in the mapping
StoredNodes == { nodes[k] : k \in DOMAIN nodes }

Min(S) == CHOOSE x \in S : \A y \in S : x <= y

\* the call got past generateHash
HashingOk(call) == call.err # ErrInHashingKey

\* C1: between completed calls, the hash values that are keys of the mapping
\* are, as a set, the values held in sortedKeyOfNodes (each key a uint64, each
\* value its int64 conversion).
C1_MappingEqualsSequence ==
    /\ \A k \in DOMAIN nodes : k[1] = "uint64"
    /\ { Int64(h) : h \in StoredHashes } = SequenceValues

\* a node was removed from a ring whose hashes lie on both sides of the sign bit
C1_Witness ==
    /\ last.op = "RemoveNode"
    /\ last.err = NoErr
    /\ Len(sortedKeyOfNodes) >= 2
    /\ sortedKeyOfNodes[1] < 0
    /\ sortedKeyOfNodes[Len(sortedKeyOfNodes)] >= 0

\* C2: after every completed call sortedKeyOfNodes is strictly ascending:
\* sorted, and no value twice.
C2_StrictlyAscending ==
    \A i \in 1 .. Len(sortedKeyOfNodes) - 1 :
        sortedKeyOfNodes[i] < sortedKeyOfNodes[i + 1]

\* a node was added whose hash is not the largest of the ring
C2_Witness ==
    /\ last.op = "AddNode"
    /\ last.err = NoErr
    /\ Len(sortedKeyOfNodes) >= 3
    /\ sortedKeyOfNodes[Len(sortedKeyOfNodes)] # Int64(Hash(GetIdentifier(last.node)))

\* C3: a GetNode(key) on a ring where some stored hash is >= hash(key)
\* returns, with no error, the node registered under the smallest stored
\* hash >= hash(key).
C3_SuccessorLookup ==
    (/\ last.op = "GetNode"
     /\ HashingOk(last)
     /\ \E h \in StoredHashes : h >= Hash(last.key))
    => (/\ last.err = NoErr
        /\ last.ret =
             nodes[U64Key(Min({ h \in StoredHashes : h >= Hash(last.key) }))])

\* C4: on a non-empty ring, a GetNode(key) with hash(key) above every
\* registered hash returns, with no error, the node of the smallest
\* registered hash.
C4_WrapAround ==
    (/\ last.op = "GetNode"
     /\ HashingOk(last)
     /\ StoredHashes # {}
     /\ \A h \in StoredHashes : Hash(last.key) > h)
    => (/\ last.err = NoErr
        /\ last.ret = nodes[U64Key(Min(StoredHashes))])

\* C6: while no AddNode or RemoveNode has succeeded since a GetNode(k), every
\* later GetNode(k) returns what that one returned (both having hashed k).
C6_Determinism ==
    (/\ obs.kind = "get"
     /\ last.op = "GetNode"
     /\ last.key = obs.key
     /\ HashingOk(obs)
     /\ HashingOk(last))
    => (last.ret = obs.ret /\ last.err = obs.err)

\* a later GetNode of the remembered key returned a node, on a ring of two
\* nodes or more
C6_Witness ==
    /\ obs.kind = "get"
    /\ obs.later
    /\ last.op = "GetNode"
    /\ last.key = obs.key
    /\ last.err = NoErr
    /\ Len(sortedKeyOfNodes) >= 2

\* the hash that follows h among the hashes S, going round to the smallest
FormerSuccessor(S, h) ==
    IF \E x \in S : x > h THEN Min({ x \in S : x > h }) ELSE Min(S \ {h})

\* C7: a successful RemoveNode(n) of a registered node n, on a ring of two
\* nodes or more, leaves the answer of GetNode as it was for every key that
\* did not resolve to n, and moves every key that resolved to n to the node
\* of the hash that followed hash(n) on the ring.
C7_MinimalDisruption ==
    [][ (/\ last'.op = "RemoveNode"
         /\ last'.err = NoErr
         /\ Cardinality(DOMAIN nodes) >= 2
         /\ MapLoad(nodes, U64Key(Hash(GetIdentifier(last'.node)))).value
                = last'.node)
        => \A k \in Keys :
             LET n == last'.node
                 before == GetNodeCall(pkg, config, nodes, sortedKeyOfNodes,
                                       k, FALSE)
                 after == GetNodeCall(pkg, config, nodes', sortedKeyOfNodes',
                                      k, FALSE)
                 next == FormerSuccessor(StoredHashes, Hash(GetIdentifier(n)))
             IN  IF before.err = NoErr /\ before.node = n
                 THEN after.err = NoErr /\ after.node = nodes[U64Key(next)]
                 ELSE after.err = before.err /\ after.node = before.node
      ]_vars

\* a registered node was removed, a node remains, one key resolved to the
\* removed node and another key did not
C7_Witness ==
    /\ last.op = "RemoveNode"
    /\ last.err = NoErr
    /\ last.stored = last.node
    /\ pkg = "hashring"
    /\ Len(sortedKeyOfNodes) >= 1
    /\ \E k1, k2 \in Keys :
          /\ Hash(k1) = Hash(GetIdentifier(last.node))
          /\ Hash(k2) \in StoredHashes

\* C8: after RemoveNode(n) succeeded and until an AddNode of the same hash
\* succeeds, no GetNode returns n, and while nodes remain GetNode returns one
\* of them with no error.
C8_RemovedNotReturned ==
    (obs.kind = "removed" /\ last.op = "GetNode")
    => (/\ last.ret # obs.node
        /\ (HashingOk(last) /\ StoredHashes # {})
              => (last.err = NoErr /\ last.ret \in StoredNodes))

\* C9: an AddNode whose hash is already a key of the mapping returns
\* ErrNodeExits and leaves the mapping, the node stored under that hash
\* included, and the ordered sequence as they were.
C9_NoDuplicateRegistration ==
    [][ (/\ last'.op = "AddNode"
         /\ HashingOk(last')
         /\ U64Key(Hash(GetIdentifier(last'.node))) \in DOMAIN nodes)
        => (/\ last'.err = ErrNodeExits
            /\ nodes' = nodes
            /\ sortedKeyOfNodes' = sortedKeyOfNodes)
      ]_vars

\* an AddNode of another identifier with the hash of a registered node failed
C9_Witness ==
    /\ last.op = "AddNode"
    /\ last.err = ErrNodeExits
    /\ GetIdentifier(last.stored) # GetIdentifier(last.node)
    /\ nodes[U64Key(Hash(GetIdentifier(last.node)))] = last.stored

\* C10, as stated: GetNode on a ring without nodes returns
\* ErrNoConnectedNodes and no node, for every key.
C10_EmptyLookup_Original ==
    (last.op = "GetNode" /\ StoredHashes = {} /\ sortedKeyOfNodes = <<>>)
    => (last.err = ErrNoConnectedNodes /\ last.ret = NilNode)

\* C10, amended: GetNode on a ring without nodes returns ErrNoConnectedNodes
\* and no node for every key the hash function consumes (and ErrInHashingKey
\* when its Write fails).
C10_EmptyLookup ==
    (last.op = "GetNode" /\ StoredHashes = {} /\ sortedKeyOfNodes = <<>>)
    => (/\ last.ret = NilNode
        /\ last.err = IF HashingOk(last) THEN ErrNoConnectedNodes
                      ELSE ErrInHashingKey)

\* a ring emptied by removing its node answered ErrNoConnectedNodes
C10_Witness ==
    /\ obs.kind = "removed"
    /\ obs.was = obs.node
    /\ last.op = "GetNode"
    /\ last.err = ErrNoConnectedNodes

\* the mapping and the ordered sequence hold the same hashes
InSync ==
    /\ \A k \in DOMAIN nodes : k[1] = "uint64"
    /\ { Int64(h) : h \in StoredHashes } = SequenceValues

\* the caller is about to read the mapping or the sequence and has written
\* neither in this call
AboutToRead(t) ==
    \/ pc[t] \in {"Load", "LoadAndDelete", "GetLoad"}
    \/ pc[t] = "binarySearch" /\ frame[t].op = "GetNode"

\* C5: with concurrent callers, no call reads the ring while a hash is in
\* the mapping and not in the ordered sequence, or in the sequence and not in
\* the mapping.
C5_AtomicUpdate == \A t \in Threads : AboutToRead(t) => InSync

\* one caller is between its two writes while another waits in Lock
C5_Witness ==
    \E t, u \in Threads :
        /\ t # u
        /\ ~InSync
        /\ pc[t] \in {"append", "binarySearch", "RemoveAt"}
        /\ pc[u] = "Lock"
        /\ frame[u].op = "GetNode"

\* C11, as stated: a RemoveNode of a node whose identifier hash is not a key
\* of the mapping (any RemoveNode on an empty ring, a second RemoveNode of a
\* removed node) returns ErrNodeNotFound and leaves the mapping and the
\* ordered sequence as they were.
C11_RemoveAbsent_Original ==
    [][ (/\ last'.op = "RemoveNode"
         /\ U64Key(Hash(GetIdentifier(last'.node))) \notin DOMAIN nodes)
        => (/\ last'.err = ErrNodeNotFound
            /\ nodes' = nodes
            /\ sortedKeyOfNodes' = sortedKeyOfNodes)
      ]_vars

\* C11, amended: such a RemoveNode leaves the mapping and the ordered
\* sequence as they were and returns ErrNodeNotFound when the hash function
\* consumed the identifier (ErrInHashingKey when its Write failed).
C11_RemoveAbsent ==
    [][ (/\ last'.op = "RemoveNode"
         /\ U64Key(Hash(GetIdentifier(last'.node))) \notin DOMAIN nodes)
        => (/\ last'.err = IF HashingOk(last') THEN ErrNodeNotFound
                           ELSE ErrInHashingKey
            /\ nodes' = nodes
            /\ sortedKeyOfNodes' = sortedKeyOfNodes)
      ]_vars

\* the second RemoveNode of a removed node, other nodes still registered
C11_Witness ==
    /\ obs.kind = "removed"
    /\ obs.later
    /\ last.op = "RemoveNode"
    /\ last.node = obs.node
    /\ last.err = ErrNodeNotFound
    /\ Len(sortedKeyOfNodes) >= 1

\* C12: an AddNode or a RemoveNode that returns an error, whatever the
\* error, leaves the mapping and the ordered sequence as they were before
\* the call.
C12_NoPartialApplication ==
    [][ (/\ last'.op \in {"AddNode", "RemoveNode"}
         /\ last'.err # NoErr)
        => (nodes' = nodes /\ sortedKeyOfNodes' = sortedKeyOfNodes)
      ]_vars

\* an AddNode of a second object with a registered identifier failed, on a
\* ring of two nodes or more
C12_Witness ==
    /\ last.op = "AddNode"
    /\ last.err = ErrNodeExits
    /\ last.stored # last.node
    /\ GetIdentifier(last.stored) = GetIdentifier(last.node)
    /\ Len(sortedKeyOfNodes) >= 2

\* C13: on a ring holding exactly one node, GetNode returns that node with
\* no error, for every key.
C13_SingleNode ==
    (/\ last.op = "GetNode"
     /\ HashingOk(last)
     /\ Cardinality(DOMAIN nodes) = 1
     /\ Len(sortedKeyOfNodes) = 1)
    => (/\ last.err = NoErr
        /\ \A k \in DOMAIN nodes : last.ret = nodes[k])

\* C16: at any instant at most one caller is between ring.mu.Lock() and
\* ring.mu.Unlock(), whatever the operations, and ring.mu is held by it.
C16_MutualExclusion ==
    LET inside == { t \in Threads : pc[t] \notin {"idle", "Lock"} }
    IN  /\ Cardinality(inside) <= 1
        /\ \A t \in inside : mu = t
        /\ inside = {} => mu = NoThread

\* a GetNode is inside the lock while another GetNode waits for it
C16_Witness ==
    \E t, u \in Threads :
        /\ t # u
        /\ frame[t].op = "GetNode"
        /\ pc[t] = "GetLoad"
        /\ frame[u].op = "GetNode"
        /\ pc[u] = "Lock"

\* the sequence s without its entry at position i
Without(s, i) == SubSeq(s, 1, i - 1) \o SubSeq(s, i + 1, Len(s))

\* C17: a successful AddNode(n), h = hash(n.identifier): the mapping gains
\* the entry h -> n and nothing else, the ordered sequence gains the value h
\* once, and every other entry and value stays.
C17_AddEffect ==
    [][ (last'.op = "AddNode" /\ last'.err = NoErr)
        => LET n == last'.node
               h == Hash(GetIdentifier(n))
           IN  /\ U64Key(h) \notin DOMAIN nodes
               /\ DOMAIN nodes' = DOMAIN nodes \cup {U64Key(h)}
               /\ nodes'[U64Key(h)] = n
               /\ \A k \in DOMAIN nodes : nodes'[k] = nodes[k]
               /\ Len(sortedKeyOfNodes') = Len(sortedKeyOfNodes) + 1
               /\ \E i \in 1 .. Len(sortedKeyOfNodes') :
                     /\ sortedKeyOfNodes'[i] = Int64(h)
                     /\ Without(sortedKeyOfNodes', i) = sortedKeyOfNodes
      ]_vars

\* a node was added between two registered hashes
C17_Witness ==
    /\ last.op = "AddNode"
    /\ last.err = NoErr
    /\ Len(sortedKeyOfNodes) >= 3
    /\ \E i \in 2 .. Len(sortedKeyOfNodes) - 1 :
          sortedKeyOfNodes[i] = Int64(Hash(GetIdentifier(last.node)))

\* C18: a successful RemoveNode(n), h = hash(n.identifier): the mapping
\* loses the entry of h and nothing else, the ordered sequence loses the one
\* value h, and every other entry and value stays, the values in the order
\* they had.
C18_RemoveEffect ==
    [][ (last'.op = "RemoveNode" /\ last'.err = NoErr)
        => LET h == Hash(GetIdentifier(last'.node))
           IN  /\ U64Key(h) \in DOMAIN nodes
               /\ DOMAIN nodes' = DOMAIN nodes \ {U64Key(h)}
               /\ \A k \in DOMAIN nodes' : nodes'[k] = nodes[k]
               /\ Len(sortedKeyOfNodes') = Len(sortedKeyOfNodes) - 1
               /\ \E i \in 1 .. Len(sortedKeyOfNodes) :
                     /\ sortedKeyOfNodes[i] = Int64(h)
                     /\ Without(sortedKeyOfNodes, i) = sortedKeyOfNodes'
      ]_vars

\* a node was removed from between two registered hashes
C18_Witness ==
    /\ last.op = "RemoveNode"
    /\ last.err = NoErr
    /\ Len(sortedKeyOfNodes) >= 2
    /\ \E i \in 1 .. Len(sortedKeyOfNodes) - 1 :
          /\ sortedKeyOfNodes[i] < Int64(Hash(GetIdentifier(last.node)))
          /\ Int64(Hash(GetIdentifier(last.node))) < sortedKeyOfNodes[i + 1]

\* C19: when the hash function fails to consume the bytes it is given,
\* AddNode, GetNode and RemoveNode each return ErrInHashingKey, GetNode
\* returns no node, and the mapping and the ordered sequence stay as they
\* were.
C19_HashingFailure ==
    [][ /\ (AddNode(last'.node, TRUE) \/ RemoveNode(last'.node, TRUE, FALSE))
              => (/\ last'.err = ErrInHashingKey
                  /\ nodes' = nodes
                  /\ sortedKeyOfNodes' = sortedKeyOfNodes)
        /\ GetNode(last'.key, TRUE, FALSE)
              => (/\ last'.err = ErrInHashingKey
                  /\ last'.ret = NilNode
                  /\ nodes' = nodes
                  /\ sortedKeyOfNodes' = sortedKeyOfNodes)
      ]_vars

\* the hash function failed in a RemoveNode of a registered node
C19_Witness ==
    /\ config.HashFunction = "custom"
    /\ last.op = "RemoveNode"
    /\ last.err = ErrInHashingKey
    /\ last.node \in StoredNodes
    /\ Len(sortedKeyOfNodes) >= 2

\* the hash that precedes h among the hashes S, going round to the largest
RingPredecessor(S, h) ==
    IF \E x \in S : x < h THEN CHOOSE x \in S : x < h /\ \A y \in S : y < h => y <= x
    ELSE CHOOSE x \in S : \A y \in S : y <= x

\* hash k lies on the ring after p and not after h, going up from p and
\* round through 0
InArc(p, h, k) ==
    IF p < h THEN p < k /\ k <= h
    ELSE k > p \/ k <= h

\* C20: a successful AddNode(n) leaves the answer of GetNode as it was for
\* every key whose answer after the addition is not n; a key whose answer
\* is now n has its hash between the hash of n's ring predecessor and the
\* hash of n.
C20_MinimalDisruptionOnAdd ==
    [][ (last'.op = "AddNode" /\ last'.err = NoErr)
        => \A k \in Keys :
             LET n == last'.node
                 h == Hash(GetIdentifier(n))
                 before == GetNodeCall(pkg, config, nodes, sortedKeyOfNodes,
                                       k, FALSE)
                 after == GetNodeCall(pkg, config, nodes', sortedKeyOfNodes',
                                      k, FALSE)
                 S == { x[2] : x \in DOMAIN nodes' }
             IN  IF after.err = NoErr /\ after.node = n
                 THEN S = {h} \/ InArc(RingPredecessor(S, h), h, Hash(k))
                 ELSE /\ after.node = before.node
                      /\ (after.err = NoErr) = (before.err = NoErr)
      ]_vars

\* a node was added to a ring of two nodes or more; one key now resolves to
\* it and another key resolves to the node it resolved to before
C20_Witness ==
    /\ last.op = "AddNode"
    /\ last.err = NoErr
    /\ pkg = "hashring"
    /\ Len(sortedKeyOfNodes) >= 3
    /\ \E k1, k2 \in Keys :
          /\ GetNodeCall(pkg, config, nodes, sortedKeyOfNodes, k1, FALSE).node
                 = last.node
          /\ GetNodeCall(pkg, config, nodes, sortedKeyOfNodes, k2, FALSE).node
                 \notin {last.node, NilNode}

\* C14: concurrent AddNode calls on nodes of pairwise distinct hashes, none
\* registered before: every call returns success, and once the calls have
\* returned the ordered sequence holds one entry for each of them, the
\* hashes of all of them, in ascending order.
C14_ConcurrentAdds ==
    LET done == { t \in Threads : pc[t] = "done" }
        added == { t \in done : frame[t].err = NoErr }
    IN  /\ \A t \in done : frame[t].err # ErrInHashingKey => frame[t].err = NoErr
        /\ (\A t \in Threads : pc[t] \in {"idle", "done"})
              => (/\ Len(sortedKeyOfNodes) = Cardinality(added)
                  /\ SequenceValues = { Int64(frame[t].hashVal) : t \in added }
                  /\ \A i \in 1 .. Len(sortedKeyOfNodes) - 1 :
                        sortedKeyOfNodes[i] < sortedKeyOfNodes[i + 1]
                  /\ \A t \in added :
                        nodes[U64Key(frame[t].hashVal)] = frame[t].node)

\* every goroutine has returned from its AddNode with success, the one that
\* started first holding the larger hash
C14_Witness ==
    /\ \A t \in Threads : pc[t] = "done" /\ frame[t].err = NoErr
    /\ Len(sortedKeyOfNodes) = NumThreads
    /\ Int64(frame[1].hashVal) = sortedKeyOfNodes[NumThreads]

\* C15: while no RemoveNode runs, a GetNode that runs concurrently with
\* other GetNode and AddNode calls on a ring holding a node returns, with no
\* error, a node that is registered during the call.
C15_ConcurrentLookups ==
    \A t \in Threads :
        (/\ pc[t] = "Unlock"
         /\ frame[t].op = "GetNode"
         /\ frame[t].err # ErrInHashingKey
         /\ sortedKeyOfNodes # <<>>)
        => (/\ frame[t].err = NoErr
            /\ frame[t].ret \in StoredNodes)

\* C21: every call that waits for the ring lock gets it, and every call that
\* holds it returns and releases it, whatever it returns; no caller waits
\* forever.
C21_EveryCallReturns ==
    \A t \in Threads :
        /\ (pc[t] = "Lock") ~> (mu = t)
        /\ (mu = t) ~> (pc[t] = "idle" /\ mu # t)

\* a caller waits for the lock while the holder is about to return an error
C21_Witness ==
    \E t, u \in Threads :
        /\ t # u
        /\ pc[t] = "Unlock"
        /\ mu = t
        /\ frame[t].err \notin {NoErr}
        /\ pc[u] = "Lock"

\* the configuration of the ring with the verbose-logging option the other
\* way round
OtherLogging == [config EXCEPT !.EnableLogs = ~config.EnableLogs]

\* C22: a ring that differs from this one in the verbose-logging option only
\* and holds the same mapping and sequence answers every AddNode, GetNode
\* and RemoveNode call as this one does, with the same error and node, and
\* is left with the same mapping and sequence: two such rings driven by the
\* same calls stay equal step after step.
C22_LoggingAdvisory ==
    [][ /\ \A writeFails \in BOOLEAN :
              AddNode(last'.node, writeFails)
              => LET r == AddNodeCall(OtherLogging, nodes, sortedKeyOfNodes,
                                      last'.node, writeFails)
                 IN  /\ r.err = last'.err
                     /\ r.nodes = nodes'
                     /\ r.sortedKeyOfNodes = sortedKeyOfNodes'
        /\ \A writeFails \in BOOLEAN :
              RemoveNode(last'.node, writeFails, FALSE)
              => LET r == RemoveNodeCall(OtherLogging, nodes, sortedKeyOfNodes,
                                         last'.node, writeFails)
                 IN  /\ r.err = last'.err
                     /\ r.nodes = nodes'
                     /\ r.sortedKeyOfNodes = sortedKeyOfNodes'
        /\ \A writeFails \in BOOLEAN :
              GetNode(last'.key, writeFails, FALSE)
              => LET r == GetNodeCall(pkg, OtherLogging, nodes,
                                      sortedKeyOfNodes, last'.key, writeFails)
                 IN  /\ r.err = last'.err
                     /\ r.node = last'.ret
                     /\ nodes' = nodes
                     /\ sortedKeyOfNodes' = sortedKeyOfNodes
      ]_vars

\* a GetNode wrote its log line and returned a node of a ring of two or more
C22_Witness ==
    /\ config.EnableLogs
    /\ last.op = "GetNode"
    /\ last.logged
    /\ last.err = NoErr
    /\ Len(sortedKeyOfNodes) >= 2

C24_NeverNodeNotFound ==
    (last.op = "GetNode")
    => (/\ last.err # ErrNodeNotFound
        /\ (HashingOk(last) /\ sortedKeyOfNodes # <<>>)
              => (last.err = NoErr /\ last.ret \in StoredNodes))

\* C25: when RemoveNode has found its hash h in the mapping and has made its
\* ordered search, the search has returned no error and the index of an
\* entry equal to h (as int64), so the entry RemoveNode cuts out is h; and
\* RemoveNode never returns the empty-ring error.
C25_RemoveSearchExact ==
    \A t \in Threads :
        /\ (pc[t] = "RemoveAt")
              => (/\ frame[t].err = NoErr
                  /\ frame[t].index \in 0 .. Len(sortedKeyOfNodes) - 1
                  /\ sortedKeyOfNodes[frame[t].index + 1]
                         = Int64(frame[t].hashVal))
        /\ (pc[t] = "Unlock" /\ frame[t].op = "RemoveNode")
              => frame[t].err \in {NoErr, ErrNodeNotFound, ErrInHashingKey}

\* RemoveNode found a hash with the top bit set at an index other than 0
C25_Witness ==
    \E t \in Threads :
        /\ pc[t] = "RemoveAt"
        /\ frame[t].hashVal >= SignBit
        /\ frame[t].index >= 1
        /\ Len(sortedKeyOfNodes) >= 3

\* the position of value v in sequence s
IndexOf(s, v) == CHOOSE i \in 1 .. Len(s) : s[i] = v

\* the smallest hash of S that is >= k as an unsigned number, the smallest
\* hash of S if there is none
UnsignedSuccessor(S, k) ==
    IF \E x \in S : x >= k THEN Min({ x \in S : x >= k }) ELSE Min(S)

\* the hash GetNode has selected is the unsigned successor of the key's hash
SelectsUnsignedSuccessor ==
    \A t \in Threads :
        (pc[t] = "GetLoad")
        => (/\ frame[t].index \in 0 .. Len(sortedKeyOfNodes) - 1
            /\ sortedKeyOfNodes[frame[t].index + 1]
                   = Int64(UnsignedSuccessor(StoredHashes, frame[t].hashVal)))

\* C26, as stated: of two registered hashes a < b, as unsigned numbers, a
\* precedes b in the ordered sequence, and the hash GetNode selects is the
\* successor of the key's hash in that order, with wrap-around.
C26_RingOrder_Original ==
    /\ (mu = NoThread)
          => \A a, b \in StoredHashes :
                a < b => IndexOf(sortedKeyOfNodes, Int64(a))
                            < IndexOf(sortedKeyOfNodes, Int64(b))
    /\ SelectsUnsignedSuccessor

\* C26, amended: of two registered hashes, the one that is smaller as a
\* signed number (int64) precedes the other in the ordered sequence, so a
\* hash with the top bit set precedes every hash without it; the key's hash
\* is compared in the same signed order, and the hash GetNode selects is
\* still the successor of the key's hash in unsigned order, with wrap-around.
C26_RingOrder ==
    /\ (mu = NoThread)
          => \A a, b \in StoredHashes :
                /\ Int64(a) < Int64(b)
                      => IndexOf(sortedKeyOfNodes, Int64(a))
                            < IndexOf(sortedKeyOfNodes, Int64(b))
                /\ (a >= SignBit /\ b < SignBit)
                      => IndexOf(sortedKeyOfNodes, Int64(a))
                            < IndexOf(sortedKeyOfNodes, Int64(b))
    /\ SelectsUnsignedSuccessor

\* GetNode of a key hash with the top bit set, above every registered hash
\* as an unsigned number, has selected a hash without the top bit at an
\* index other than 0
C26_Witness ==
    \E t \in Threads :
        /\ pc[t] = "GetLoad"
        /\ frame[t].hashVal >= SignBit
        /\ \A h \in StoredHashes : h < frame[t].hashVal
        /\ frame[t].index >= 1
        /\ sortedKeyOfNodes[1] < 0
        /\ sortedKeyOfNodes[frame[t].index + 1] >= 0

\* C27: a GetNode call, whatever it returns, leaves the mapping and the
\* ordered sequence as they were; they change only in an AddNode or a
\* RemoveNode that returns success.
C27_GetNodeReadOnly ==
    [][ /\ (last'.op = "GetNode")
              => (nodes' = nodes /\ sortedKeyOfNodes' = sortedKeyOfNodes)
        /\ (nodes' # nodes \/ sortedKeyOfNodes' # sortedKeyOfNodes)
              => (last'.op \in {"AddNode", "RemoveNode"} /\ last'.err = NoErr)
      ]_vars

\* a GetNode returned an error on a ring of two nodes or more
C27_Witness ==
    /\ last.op = "GetNode"
    /\ last.err \notin {NoErr, ErrNoConnectedNodes}
    /\ last.ret = NilNode
    /\ Len(sortedKeyOfNodes) >= 2

\* C28: AddNode returns nil, ErrInHashingKey or ErrNodeExits; RemoveNode
\* returns nil, ErrInHashingKey or ErrNodeNotFound; GetNode returns a node,
\* ErrInHashingKey or ErrNoConnectedNodes, and ErrNoConnectedNodes when and
\* only when the ring is empty (the key hashed).
C28_ErrorKinds ==
    /\ (last.op = "AddNode")
          => last.err \in {NoErr, ErrInHashingKey, ErrNodeExits}
    /\ (last.op = "RemoveNode")
          => last.err \in {NoErr, ErrInHashingKey, ErrNodeNotFound}
    /\ (last.op = "GetNode")
          => (/\ last.err \in {NoErr, ErrInHashingKey, ErrNoConnectedNodes}
              /\ (last.err = NoErr) = (last.ret # NilNode)
              /\ HashingOk(last)
                    => ((last.err = ErrNoConnectedNodes)
                            = (sortedKeyOfNodes = <<>>)))

\* C29: when the hash function fails, GetNode on an empty ring, RemoveNode
\* of a node that is not registered and AddNode of a node that is registered
\* all return ErrInHashingKey, not the error the ring would have given.
C29_ErrorPrecedence ==
    [][ /\ (GetNode(last'.key, TRUE, FALSE) /\ sortedKeyOfNodes = <<>>)
              => last'.err = ErrInHashingKey
        /\ (/\ RemoveNode(last'.node, TRUE, FALSE)
            /\ U64Key(Hash(GetIdentifier(last'.node))) \notin DOMAIN nodes)
              => last'.err = ErrInHashingKey
        /\ (/\ AddNode(last'.node, TRUE)
            /\ U64Key(Hash(GetIdentifier(last'.node))) \in DOMAIN nodes)
              => last'.err = ErrInHashingKey
      ]_vars

\* the hash function failed in an AddNode of a registered node
C29_Witness ==
    /\ config.HashFunction = "custom"
    /\ last.op = "AddNode"
    /\ last.err = ErrInHashingKey
    /\ last.node \in StoredNodes

\* the call of caller t, about to return, has done to the ring and returns
\* what the same call does and returns when it runs alone on the ring it
\* found when it took the lock
AsIfAlone(t) ==
    LET f == frame[t]
        writeFails == f.err = ErrInHashingKey
    IN  IF f.op = "AddNode"
        THEN LET r == AddNodeCall(config, obs.nodes, obs.sortedKeyOfNodes,
                                  f.node, writeFails)
             IN  /\ r.err = f.err
                 /\ r.nodes = nodes
                 /\ r.sortedKeyOfNodes = sortedKeyOfNodes
        ELSE IF f.op = "RemoveNode"
        THEN LET r == RemoveNodeCall(config, obs.nodes, obs.sortedKeyOfNodes,
                                     f.node, writeFails)
             IN  /\ r.err = f.err
                 /\ r.nodes = nodes
                 /\ r.sortedKeyOfNodes = sortedKeyOfNodes
        ELSE LET r == GetNodeCall(pkg, config, obs.nodes, obs.sortedKeyOfNodes,
                                  f.key, writeFails)
             IN  /\ r.err = f.err
                 /\ r.node = f.ret
                 /\ obs.nodes = nodes
                 /\ obs.sortedKeyOfNodes = sortedKeyOfNodes

\* C30: concurrent AddNode, RemoveNode and GetNode calls return, and leave
\* in the mapping and the sequence, what the same calls do when they run one
\* after the other in the order in which they took the lock: each call
\* starts on the ring the call before it left and acts on it as if alone.
\* A call takes the lock between its start and its return, so that order
\* agrees with the order of calls that do not overlap.
C30_Linearizable ==
    \A t \in Threads :
        /\ (pc[t] \notin {"idle", "Lock"}) => (mu = t /\ obs.kind = "locked")
        /\ (pc[t] = "generateHash")
              => (/\ obs.kind = "locked"
                  /\ obs.nodes = nodes
                  /\ obs.sortedKeyOfNodes = sortedKeyOfNodes)
        /\ (pc[t] = "Unlock") => (obs.kind = "locked" /\ AsIfAlone(t))

\* a RemoveNode is about to return success while an AddNode that started
\* during it waits for the lock
C30_Witness ==
    \E t, u \in Threads :
        /\ t # u
        /\ pc[t] = "Unlock"
        /\ frame[t].op = "RemoveNode"
        /\ frame[t].err = NoErr
        /\ Len(sortedKeyOfNodes) >= 1
        /\ pc[u] = "Lock"
        /\ frame[u].op = "AddNode"

\* C31: a RemoveNode(n) made straight after a successful AddNode(n) returns
\* success and leaves the mapping and the ordered sequence exactly as they
\* were before that AddNode; an AddNode(n) made straight after that returns
\* success again (the hash function consuming the identifier each time).
C31_AddRemoveRoundTrip ==
    [][ /\ (/\ obs.kind \in {"added", "readded"}
            /\ ~obs.later
            /\ last'.op = "RemoveNode"
            /\ last'.node = obs.node
            /\ HashingOk(last'))
              => (/\ last'.err = NoErr
                  /\ nodes' = obs.nodes
                  /\ sortedKeyOfNodes' = obs.sortedKeyOfNodes)
        /\ (/\ obs.kind = "restored"
            /\ ~obs.later
            /\ last'.op = "AddNode"
            /\ last'.node = obs.node
            /\ HashingOk(last'))
              => (/\ last'.err = NoErr
                  /\ nodes' # nodes
                  /\ Len(sortedKeyOfNodes') = Len(sortedKeyOfNodes) + 1)
      ]_vars

\* a node was added between two registered hashes, removed, and added again
C31_Witness ==
    /\ obs.kind = "readded"
    /\ last.op = "AddNode"
    /\ last.err = NoErr
    /\ Len(sortedKeyOfNodes) >= 3
    /\ \E i \in 2 .. Len(sortedKeyOfNodes) - 1 :
          sortedKeyOfNodes[i] = Int64(Hash(GetIdentifier(obs.node)))

\* C32: RemoveNode(m), for m another node object than the registered node n
\* whose identifier hashes to the same value, returns success and takes n's
\* hash out of the mapping and out of the ordered sequence; from then until
\* an AddNode of that hash succeeds, no GetNode returns n.
C32_MembershipByHash ==
    [][ /\ (/\ last'.op = "RemoveNode"
            /\ HashingOk(last')
            /\ last'.stored \notin {NilNode, last'.node})
              => (/\ last'.err = NoErr
                  /\ U64Key(Hash(GetIdentifier(last'.stored)))
                        \notin DOMAIN nodes'
                  /\ \A i \in 1 .. Len(sortedKeyOfNodes') :
                        sortedKeyOfNodes'[i]
                          # Int64(Hash(GetIdentifier(last'.stored)))
                  /\ \A k \in DOMAIN nodes' : nodes'[k] # last'.stored
                  /\ Len(sortedKeyOfNodes') = Len(sortedKeyOfNodes) - 1)
        /\ (/\ obs'.kind = "removed"
            /\ obs'.was # obs'.node
            /\ last'.op = "GetNode")
              => last'.ret # obs'.was
      ]_vars

\* n was removed through a node of another identifier and the same hash,
\* and a GetNode made afterwards returned one of the nodes that remain
C32_Witness ==
    /\ obs.kind = "removed"
    /\ obs.was \notin {NilNode, obs.node}
    /\ GetIdentifier(obs.was) # GetIdentifier(obs.node)
    /\ last.op = "GetNode"
    /\ last.err = NoErr
    /\ last.ret \in StoredNodes

====
